---- MODULE Spec2Model ----
(***************************************************************************)
(* A model of frontend-auth: the session facade (ensureAuthenticatedUser,  *)
(* login, logout) of src/AuthenticatedAPIClient/authInterface.js and of   *)
(* its promise-chain variant, inside a browser that follows the redirects, *)
(* the access-token cache and the CSRF request step.                       *)
(*                                                                         *)
(* JavaScript strings that are inspected character by character (URLs,     *)
(* document.referrer, routes) are sequences of one-character strings.      *)
(* Messages that are only compared are TLA+ strings.                       *)
(* JavaScript values are records [t |-> tag, v |-> payload, a |-> attrs].  *)
(***************************************************************************)
EXTENDS Naturals, Sequences, FiniteSets, TLC

(***************************************************************************)
(* Bounds of the model.                                                    *)
(***************************************************************************)
\* page loads of the application a run may hold
MaxLoads == 3
\* callers of TokenCache.get() that may be under way at once
MaxCallers == 3
\* the clock of the token cache runs from 0 to MaxTime
MaxTime == 2
\* requests that may be held in the CSRF step at once
MaxWaiting == 2
\* calls of the module's operations, and requests, a run may hold
MaxCalls == 3

(***************************************************************************)
(* JavaScript values.                                                      *)
(***************************************************************************)
Null == [t |-> "null", v |-> "", a |-> ""]
Undefined == [t |-> "undefined", v |-> "", a |-> ""]
\* what accessToken.get() resolves to for a session: any value the cache returns
TokenA == [t |-> "token", v |-> "userA", a |-> ""]
TokenB == [t |-> "token", v |-> "userB", a |-> ""]
\* rejection reasons: Error objects (one carrying customAttributes), and no reason
ErrNetwork == [t |-> "Error", v |-> "Network Error", a |-> ""]
ErrHttp == [t |-> "Error", v |-> "Request failed with status code 500", a |-> "httpErrorStatus"]
MkError(message) == [t |-> "Error", v |-> message, a |-> ""]
\* reading a property of undefined or null throws this
TypeErrorOf(prop) == [t |-> "TypeError", v |-> "Cannot read property " \o prop, a |-> ""]

IsNullish(x) == x.t \in {"null", "undefined"}

\* the outcomes of the awaited accessToken.get()
Resolved(x) == [kind |-> "resolved", value |-> x]
Rejected(x) == [kind |-> "rejected", value |-> x]
\* a promise nobody settles
Hung == [kind |-> "pending", value |-> Undefined]
NotCalled == [kind |-> "none", value |-> Undefined]

GetOutcomes ==
    {Resolved(x) : x \in {Null, Undefined, TokenA, TokenB}}
        \cup {Rejected(x) : x \in {ErrNetwork, ErrHttp, Undefined}}

(***************************************************************************)
(* Strings as character sequences.                                         *)
(***************************************************************************)
\* String.prototype.startsWith
startsWith(s, prefix) ==
    /\ Len(prefix) <= Len(s)
    /\ SubSeq(s, 1, Len(prefix)) = prefix

\* the characters encodeURIComponent leaves alone, as far as the model's URLs use them
Unreserved == {"a", "e", "h", "i", "l", "n", "o", "p", "q", "x", "1", "-", "_", "."}

\* the escape sequence of one reserved character
Escape(c) ==
    CASE c = ":" -> <<"%", "3", "A">>
      [] c = "/" -> <<"%", "2", "F">>
      [] c = "?" -> <<"%", "3", "F">>
      [] c = "=" -> <<"%", "3", "D">>
      [] c = "&" -> <<"%", "2", "6">>
      [] c = "%" -> <<"%", "2", "5">>
      [] c = " " -> <<"%", "2", "0">>
      [] OTHER -> <<c>>

RECURSIVE encodeURIComponent(_)
encodeURIComponent(s) ==
    IF s = <<>> THEN <<>>
    ELSE (IF Head(s) \in Unreserved THEN <<Head(s)>> ELSE Escape(Head(s)))
            \o encodeURIComponent(Tail(s))

(***************************************************************************)
(* The configuration: authConfig as applyAuthInterface copies it onto the  *)
(* client.  "h://e" stands for http://example.com, "h://a/li" for the      *)
(* login page and "h://a/lo" for the logout page of the auth server.       *)
(***************************************************************************)
appBaseUrl == <<"h", ":", "/", "/", "e">>
loginUrl == <<"h", ":", "/", "/", "a", "/", "l", "i">>
logoutUrl == <<"h", ":", "/", "/", "a", "/", "l", "o">>

\* the routes the application asks to be returned to
Routes == {<<>>, <<"/", "p">>, <<"/", "p", "?", "q", "=", "1">>}

\* document.referrer of a page load: none, the login page (bare and with a query),
\* a proper prefix of the login URL, the logout page, a page of the application
Referrers ==
    { <<>>,
      loginUrl,
      loginUrl \o <<"?", "n">>,
      SubSeq(loginUrl, 1, Len(loginUrl) - 1),
      logoutUrl,
      appBaseUrl \o <<"/", "x">> }

VARIABLES
    impl,           \* which ensureAuthenticatedUser the application calls
    page,           \* where the browser is: "app", "login", "logout"
    referrer,       \* document.referrer of the current page
    pc,             \* the call: "idle", "awaiting" (at the await), "done"
    route,          \* the call's argument
    outcome,        \* what the awaited token fetch settled with
    result,         \* how the promise of ensureAuthenticatedUser settled
    navs,           \* the location.assign targets of this page load, in order
    logs,           \* the logError calls of this page load, in order
    loads,          \* page loads of the application so far
    loginRedirects, \* times the browser followed a redirect to the login page
    noSession,      \* every token fetch of the run so far resolved to null
    \* the token cache
    cachedToken,    \* TokenCacheState.cachedToken, with its expiry
    pendingRefresh, \* TokenCacheState.pendingRefresh: the shared future, 0 for none
    refreshes,      \* the refresh network calls in flight (their futures)
    now,            \* the clock
    callers,        \* each caller of get(): where it is and what it got
    member,         \* the callers of the burst under way
    burstCalls,     \* refresh network calls issued by the burst under way
    \* the CSRF step
    csrfTokens,     \* CsrfTokenStore: origin -> token
    csrfPending,    \* PendingCsrfFetch: origin -> in-flight fetch, 0 for none
    csrfFetches,    \* the CSRF fetches in flight: fetch -> origin
    held,           \* the requests waiting in the CSRF step
    forwarded,      \* the requests the last step forwarded
    failedOut,      \* the requests the last step rejected to their callers
    refetch,        \* origins with a failed fetch and no token since
    \* the module and its client
    config,         \* the module's `config`
    authenticatedAPIClient, \* the module's `authenticatedAPIClient`
    created,        \* axios.create() calls so far
    handed,         \* the clients getAuthenticatedApiClient has returned so far
    validated,      \* the configurations configure has been run on, in order
    calls,          \* calls of the module's operations so far
    lastCall,       \* the last operation called, with its argument
    returned,       \* how the last operation ended
    \* one request through the client
    chain,          \* the handlers the request has still to pass, in order
    carried,        \* what the promise chain of the request carries
    trace,          \* the steps the request has passed, in order
    entered,        \* what entered the step passed last
    \* isExempt on its own
    probe,          \* the request configuration handed to isExempt
    exempt,         \* what isExempt returned, once called
    \* the faults around one call of ensureAuthenticatedUser
    fault           \* which collaborator of the call throws

facadeVars ==
    <<impl, page, referrer, pc, route, outcome, result, navs, logs, loads,
      loginRedirects, noSession>>

tokenVars ==
    <<cachedToken, pendingRefresh, refreshes, now, callers, member, burstCalls>>

csrfVars ==
    <<csrfTokens, csrfPending, csrfFetches, held, forwarded, failedOut, refetch>>

moduleVars ==
    <<config, authenticatedAPIClient, created, handed, validated, calls, lastCall,
      returned>>

pipelineVars == <<chain, carried, trace, entered>>

clientVars == <<moduleVars, pipelineVars, probe, exempt, fault>>

vars == <<facadeVars, tokenVars, csrfVars, clientVars>>

(***************************************************************************)
(* The redirects.                                                          *)
(***************************************************************************)
NextParam == <<"?", "n", "e", "x", "t", "=">>
RedirectUrlParam ==
    <<"?", "r", "e", "d", "i", "r", "e", "c", "t", "_", "u", "r", "l", "=">>

\* a slip: the return URL left unencoded
loginUnencoded(redirectUrl) == loginUrl \o NextParam \o redirectUrl

\* httpClient.login(redirectUrl): the target handed to location.assign
login(redirectUrl) == loginUrl \o NextParam \o encodeURIComponent(redirectUrl)

\* a slip: the logout sent to the login page
logoutToLoginPage(redirectUrl) ==
    loginUrl \o RedirectUrlParam \o encodeURIComponent(redirectUrl)

\* httpClient.logout(redirectUrl)
logout(redirectUrl) == logoutUrl \o RedirectUrlParam \o encodeURIComponent(redirectUrl)

\* redirectToLogin / redirectToLogout of the module: the same targets from config
redirectToLogin(redirectUrl) == loginUrl \o NextParam \o encodeURIComponent(redirectUrl)
redirectToLogout(redirectUrl) ==
    logoutUrl \o RedirectUrlParam \o encodeURIComponent(redirectUrl)

(***************************************************************************)
(* ensureAuthenticatedUser: what one call does once the awaited token      *)
(* fetch has settled with o, on a page whose referrer is ref, for route    *)
(* rt.  The value is the call's whole effect: how its promise settles, the *)
(* location.assign targets and the logError calls, in order.               *)
(***************************************************************************)
RedirectLoopMessage ==
    "Redirect from login page. Rejecting to avoid infinite redirect loop."
redirectLoopError == MkError(RedirectLoopMessage)

LogPrefix == "frontend-auth: "
\* one call logError(message, attributes)
LogCall(message, attributes) == [message |-> message, attributes |-> attributes]

Effect(res, nav, log) == [result |-> res, navs |-> nav, logs |-> log]

\* a slip: the arguments of startsWith exchanged
isRedirectFromLoginPageSwapped(ref) == ref # <<>> /\ startsWith(loginUrl, ref)

\* a slip: the referrer compared with the login URL instead of its prefix
isRedirectFromLoginPageExact(ref) == ref # <<>> /\ ref = loginUrl

\* document.referrer && document.referrer.startsWith(loginUrl)
isRedirectFromLoginPage(ref) == ref # <<>> /\ startsWith(ref, loginUrl)

\* a slip: == null instead of === null, so that undefined counts as no session
ensureAuthenticatedUserAsyncLoose(o, ref, rt) ==
    IF o.kind = "rejected"
    THEN IF IsNullish(o.value)
         THEN Effect(Rejected(TypeErrorOf("'message' of undefined")), <<>>, <<>>)
         ELSE Effect(Rejected(o.value),
                     <<logout(appBaseUrl)>>,
                     <<LogCall(LogPrefix \o o.value.v, o.value.a)>>)
    ELSE IF IsNullish(o.value)
         THEN IF isRedirectFromLoginPage(ref)
              THEN Effect(Rejected(redirectLoopError), <<>>,
                          <<LogCall(LogPrefix \o RedirectLoopMessage, "")>>)
              ELSE Effect(Resolved(o.value), <<login(appBaseUrl \o rt)>>, <<>>)
         ELSE Effect(Resolved(o.value), <<>>, <<>>)

\* the async function of authInterface.js
ensureAuthenticatedUserAsync(o, ref, rt) ==
    IF o.kind = "rejected"
    THEN IF IsNullish(o.value)
         \* `frontend-auth: ${error.message}` throws inside the catch block
         THEN Effect(Rejected(TypeErrorOf("'message' of undefined")), <<>>, <<>>)
         ELSE Effect(Rejected(o.value),
                     <<logout(appBaseUrl)>>,
                     <<LogCall(LogPrefix \o o.value.v, o.value.a)>>)
    ELSE IF o.value = Null
         THEN IF isRedirectFromLoginPage(ref)
              THEN Effect(Rejected(redirectLoopError), <<>>,
                          <<LogCall(LogPrefix \o RedirectLoopMessage, "")>>)
              ELSE Effect(Resolved(Null), <<login(appBaseUrl \o rt)>>, <<>>)
         ELSE Effect(Resolved(o.value), <<>>, <<>>)

\* the promise chain of the other version: new Promise(... get().then(...).catch(...))
ensureAuthenticatedUserChain(o, ref, rt) ==
    IF o.kind = "rejected"
    THEN IF IsNullish(o.value)
         \* the catch handler throws before it calls reject: the promise stays pending
         THEN Effect(Hung, <<>>, <<>>)
         ELSE Effect(Rejected(o.value),
                     <<logout(appBaseUrl)>>,
                     <<LogCall(LogPrefix \o o.value.v, o.value.a)>>)
    ELSE IF o.value = Null
         THEN IF isRedirectFromLoginPage(ref)
              THEN Effect(Rejected(redirectLoopError), <<>>,
                          <<LogCall(LogPrefix \o RedirectLoopMessage, "")>>)
              ELSE Effect(Resolved(Null), <<login(appBaseUrl \o rt)>>, <<>>)
         ELSE Effect(Resolved(o.value), <<>>, <<>>)

\* logFrontendAuthError(error) of ./utils
logFrontendAuthError(error) == <<LogCall(LogPrefix \o error.v, error.a)>>

\* getAuthenticatedUserAccessToken: the claims of the decoded token
userOf(decodedAccessToken) == [t |-> "user", v |-> decodedAccessToken.v, a |-> ""]

\* the module's ensureAuthenticatedUser, getAuthenticatedUserAccessToken inlined
ensureAuthenticatedUserModule(o, ref, rt) ==
    IF o.kind = "rejected"
    \* handleUnexpectedAccessTokenRefreshError: log, redirectToLogout(), throw
    THEN Effect(Rejected(o.value), <<redirectToLogout(appBaseUrl)>>,
                logFrontendAuthError(o.value))
    ELSE IF o.value = Null
         THEN IF isRedirectFromLoginPage(ref)
              THEN Effect(Rejected(redirectLoopError), <<>>,
                          logFrontendAuthError(redirectLoopError))
              ELSE Effect(Resolved(Null), <<redirectToLogin(appBaseUrl \o rt)>>, <<>>)
         ELSE IF o.value = Undefined
              \* undefined !== null, and decodedAccessToken.user_id throws
              THEN Effect(Rejected(TypeErrorOf("'user_id' of undefined")), <<>>, <<>>)
              ELSE Effect(Resolved(userOf(o.value)), <<>>, <<>>)

Impls == {"async", "chain", "module"}

\* what the awaited fetch may settle with: getJwtToken rejects with Error objects
OutcomesOf(i) ==
    IF i = "module" THEN GetOutcomes \ {Rejected(Undefined)} ELSE GetOutcomes

ensureAuthenticatedUser(i, o, ref, rt) ==
    CASE i = "async" -> ensureAuthenticatedUserAsync(o, ref, rt)
      [] i = "chain" -> ensureAuthenticatedUserChain(o, ref, rt)
      [] i = "module" -> ensureAuthenticatedUserModule(o, ref, rt)

(***************************************************************************)
(* The browser around the facade: the application calls                    *)
(* ensureAuthenticatedUser once per page load; a location.assign makes the *)
(* browser leave for the login or logout page, which sends it back to the  *)
(* application with itself as referrer.                                    *)
(***************************************************************************)
FacadeInit ==
    /\ impl \in Impls
    /\ page = "app"
    /\ referrer \in Referrers
    /\ pc = "idle"
    /\ route = <<>>
    /\ outcome = NotCalled
    /\ result = NotCalled
    /\ navs = <<>>
    /\ logs = <<>>
    /\ loads = 1
    /\ loginRedirects = 0
    /\ noSession = TRUE

\* the application calls ensureAuthenticatedUser(rt): it runs to the await
Call(rt) ==
    /\ page = "app"
    /\ pc = "idle"
    /\ pc' = "awaiting"
    /\ route' = rt
    /\ UNCHANGED <<impl, page, referrer, outcome, result, navs, logs, loads,
                   loginRedirects, noSession>>
    /\ UNCHANGED <<tokenVars, csrfVars, clientVars>>

\* the awaited token fetch settles with o and the rest of the function runs
Settle(o) ==
    /\ pc = "awaiting"
    /\ LET e == ensureAuthenticatedUser(impl, o, referrer, route)
       IN /\ result' = e.result
          /\ navs' = navs \o e.navs
          /\ logs' = logs \o e.logs
    /\ pc' = "done"
    /\ outcome' = o
    /\ noSession' = (noSession /\ o = Resolved(Null))
    /\ UNCHANGED <<impl, page, referrer, route, loads, loginRedirects>>
    /\ UNCHANGED <<tokenVars, csrfVars, clientVars>>

\* the browser follows the last location.assign of the page
FollowRedirect ==
    /\ page = "app"
    /\ pc = "done"
    /\ navs # <<>>
    /\ LET target == navs[Len(navs)]
       IN IF startsWith(target, loginUrl \o <<"?">>)
          THEN page' = "login" /\ loginRedirects' = loginRedirects + 1
          ELSE page' = "logout" /\ UNCHANGED loginRedirects
    /\ UNCHANGED <<impl, referrer, pc, route, outcome, result, navs, logs, loads,
                   noSession>>
    /\ UNCHANGED <<tokenVars, csrfVars, clientVars>>

\* a fresh load of the application, arriving from `from`
LoadApp(from) ==
    /\ loads < MaxLoads
    /\ page' = "app"
    /\ referrer' = from
    /\ pc' = "idle"
    /\ route' = <<>>
    /\ outcome' = NotCalled
    /\ result' = NotCalled
    /\ navs' = <<>>
    /\ logs' = <<>>
    /\ loads' = loads + 1
    /\ UNCHANGED <<impl, loginRedirects, noSession>>
    /\ UNCHANGED <<tokenVars, csrfVars, clientVars>>

\* the login page sends the browser back; its URL, with or without query, is the referrer
LoginReturns ==
    /\ page = "login"
    /\ \E from \in {loginUrl, loginUrl \o <<"?", "n">>} : LoadApp(from)

LogoutReturns ==
    /\ page = "logout"
    /\ LoadApp(logoutUrl)

(***************************************************************************)
(* TokenCache (AccessToken): get() with its single-flight refresh.         *)
(***************************************************************************)
Callers == 1..MaxCallers

\* a cached token with its expiresAt; NoToken when nothing is cached
Cached(tok, exp) == [tok |-> tok, exp |-> exp]
NoToken == Cached(Null, 0)

\* staleness: expired when expiresAt <= now, no clock-skew margin
isExpired(c, t) == c.exp <= t

hasValidToken(c, t) == c # NoToken /\ ~isExpired(c, t)

\* a slip: the pending future is not reused
joinsPendingNever(pending) == FALSE

\* a refresh is already pending: await the same future
joinsPending(pending) == pending # 0

\* what a refresh exchange may end with at time t: a token that lasts one or two
\* ticks, no session (null), or a failure
RefreshOutcomes(t) ==
    {[o |-> Resolved(tok), exp |-> t + d] : tok \in {TokenA, TokenB}, d \in {1, 2}}
        \cup {[o |-> Resolved(Null), exp |-> 0]}
        \cup {[o |-> Rejected(e), exp |-> 0] : e \in {ErrNetwork, ErrHttp}}

\* the cache after a refresh: the decoded token, or empty
cacheAfter(old, r) ==
    IF r.o.kind = "resolved" /\ r.o.value # Null THEN Cached(r.o.value, r.exp) ELSE NoToken

Idle == [st |-> "idle", fut |-> 0, res |-> NotCalled]
Waiting(f) == [st |-> "waiting", fut |-> f, res |-> NotCalled]
Settled(o) == [st |-> "settled", fut |-> 0, res |-> o]

SomeoneWaiting == \E c \in Callers : callers[c].st = "waiting"

\* the future of a new refresh call: the first one not in flight
FreshRefresh == CHOOSE f \in 1..(MaxCallers + 1) : f \notin refreshes

TokenIdle ==
    /\ cachedToken = NoToken
    /\ pendingRefresh = 0
    /\ refreshes = {}
    /\ now = 0
    /\ callers = [c \in Callers |-> Idle]
    /\ member = {}
    /\ burstCalls = 0

\* the cache as a page load finds it: empty, or a token read from the cookie
TokenInit ==
    /\ cachedToken \in {NoToken, Cached(TokenA, 1)}
    /\ pendingRefresh = 0
    /\ refreshes = {}
    /\ now = 0
    /\ callers = [c \in Callers |-> Idle]
    /\ member = {}
    /\ burstCalls = 0

\* caller c calls get(): served from the cache, or awaiting the pending refresh,
\* or issuing the refresh call; no suspension between the check and the assignment
Get(c) ==
    /\ callers[c].st # "waiting"
    /\ IF hasValidToken(cachedToken, now)
       THEN /\ callers' = [callers EXCEPT ![c] = Settled(Resolved(cachedToken.tok))]
            /\ member' = IF SomeoneWaiting THEN member ELSE {}
            /\ burstCalls' = IF SomeoneWaiting THEN burstCalls ELSE 0
            /\ UNCHANGED <<pendingRefresh, refreshes>>
       ELSE IF joinsPending(pendingRefresh)
            THEN /\ callers' = [callers EXCEPT ![c] = Waiting(pendingRefresh)]
                 /\ member' = member \cup {c}
                 /\ UNCHANGED <<pendingRefresh, refreshes, burstCalls>>
            ELSE /\ pendingRefresh' = FreshRefresh
                 /\ refreshes' = refreshes \cup {FreshRefresh}
                 /\ callers' = [callers EXCEPT ![c] = Waiting(FreshRefresh)]
                 /\ member' = IF SomeoneWaiting THEN member \cup {c} ELSE {c}
                 /\ burstCalls' = IF SomeoneWaiting THEN burstCalls + 1 ELSE 1
    /\ UNCHANGED <<cachedToken, now>>
    /\ UNCHANGED <<facadeVars, csrfVars, clientVars>>

\* the refresh call of future f ends with r: the cache is replaced, the pending
\* future cleared, and every caller awaiting f settles with the same outcome
RefreshSettles(f, r) ==
    /\ f \in refreshes
    /\ refreshes' = refreshes \ {f}
    /\ pendingRefresh' = IF pendingRefresh = f THEN 0 ELSE pendingRefresh
    /\ cachedToken' = cacheAfter(cachedToken, r)
    /\ callers' =
        [c \in Callers |->
            IF callers[c].st = "waiting" /\ callers[c].fut = f
            THEN Settled(r.o) ELSE callers[c]]
    /\ UNCHANGED <<now, member, burstCalls>>
    /\ UNCHANGED <<facadeVars, csrfVars, clientVars>>

\* time passes
Tick ==
    /\ now < MaxTime
    /\ now' = now + 1
    /\ UNCHANGED <<cachedToken, pendingRefresh, refreshes, callers, member, burstCalls>>
    /\ UNCHANGED <<facadeVars, csrfVars, clientVars>>

(***************************************************************************)
(* The CSRF request step (csrfTokenProviderInterceptor over CsrfTokens).   *)
(***************************************************************************)
OriginA == "https://testserver.org"
OriginB == "http://example.com"
Origins == {OriginA, OriginB}
Url(origin, path) == [origin |-> origin, path |-> path]
Urls == {Url(OriginA, "/a"), Url(OriginB, "/b")}
\* the origin (scheme, host, port) of a request URL
originOf(url) == url.origin

\* config.method as the step may be handed it, in either case
Methods ==
    {"get", "head", "options", "post", "put", "patch", "delete", "GET", "POST"}

CsrfTokenValues == {"tokX", "tokY"}
\* no token in the store, no X-CSRFToken header on the request
NoCsrf == ""

Request(method, flag, url) == [method |-> method, isCsrfExempt |-> flag, url |-> url]

CSRF_PROTECTED_METHODS == {"post", "put", "patch", "delete"}

\* a slip: the explicit exemption is not looked at
isExemptIgnoringFlag(axiosRequestConfig) ==
    axiosRequestConfig.method \notin CSRF_PROTECTED_METHODS

\* isExempt of attachCsrfTokenInterceptor
isExempt(axiosRequestConfig) ==
    \/ axiosRequestConfig.isCsrfExempt
    \/ axiosRequestConfig.method \notin CSRF_PROTECTED_METHODS

\* a slip: the pending fetch of the origin is not reused
csrfJoinsPendingNever(pending, origin) == FALSE

\* a fetch for the origin is pending: await it
csrfJoinsPending(pending, origin) == pending[origin] # 0

\* a slip: the pending entry outlives the fetch
csrfPendingAfterKept(pending, origin, f) == pending

\* PendingCsrfFetch once fetch f of the origin has settled, either way
csrfPendingAfter(pending, origin, f) ==
    IF pending[origin] = f THEN [pending EXCEPT ![origin] = 0] ELSE pending

Slots == 1..MaxWaiting
FreeSlot == [st |-> "free"]
Held(req, f, issued) == [st |-> "held", req |-> req, fut |-> f, issued |-> issued]
\* a request leaving the step: forwarded with its header, or rejected with a reason
Out(req, header, issued, waited, reason) ==
    [req |-> req, header |-> header, issued |-> issued, waited |-> waited,
     reason |-> reason]

HeldSlots == {i \in Slots : held[i].st = "held"}
FetchIds == {f.id : f \in csrfFetches}
FreshSlot == CHOOSE i \in Slots : held[i].st = "free"
FreshFetch == CHOOSE f \in Slots : f \notin FetchIds

CsrfIdle ==
    /\ csrfTokens = [o \in Origins |-> NoCsrf]
    /\ csrfPending = [o \in Origins |-> 0]
    /\ csrfFetches = {}
    /\ held = [i \in Slots |-> FreeSlot]
    /\ forwarded = {}
    /\ failedOut = {}
    /\ refetch = {}

\* the store as a request finds it: empty, or holding a token for an origin
CsrfInit ==
    /\ csrfTokens \in {[o \in Origins |-> NoCsrf],
                       [o \in Origins |-> IF o = OriginB THEN "tokX" ELSE NoCsrf]}
    /\ csrfPending = [o \in Origins |-> 0]
    /\ csrfFetches = {}
    /\ held = [i \in Slots |-> FreeSlot]
    /\ forwarded = {}
    /\ failedOut = {}
    /\ refetch = {}

\* a request enters the step: passed through when exempt; given the stored token;
\* or held until the fetch for its origin, pending or issued now, settles
CsrfStep(method, flag, url) ==
    LET req == Request(method, flag, url)
        o == originOf(url)
    IN
    /\ failedOut' = {}
    /\ IF isExempt(req)
       THEN /\ forwarded' = {Out(req, NoCsrf, FALSE, FALSE, Undefined)}
            /\ UNCHANGED <<csrfTokens, csrfPending, csrfFetches, held>>
       ELSE IF csrfTokens[o] # NoCsrf
            THEN /\ forwarded' = {Out(req, csrfTokens[o], FALSE, FALSE, Undefined)}
                 /\ UNCHANGED <<csrfTokens, csrfPending, csrfFetches, held>>
            ELSE /\ HeldSlots # Slots
                 /\ forwarded' = {}
                 /\ IF csrfJoinsPending(csrfPending, o)
                    THEN /\ held' = [held EXCEPT ![FreshSlot] =
                                        Held(req, csrfPending[o], FALSE)]
                         /\ UNCHANGED <<csrfTokens, csrfPending, csrfFetches>>
                    ELSE /\ held' = [held EXCEPT ![FreshSlot] =
                                        Held(req, FreshFetch, TRUE)]
                         /\ csrfPending' = [csrfPending EXCEPT ![o] = FreshFetch]
                         /\ csrfFetches' =
                                csrfFetches \cup {[id |-> FreshFetch, origin |-> o]}
                         /\ UNCHANGED csrfTokens
    /\ UNCHANGED refetch
    /\ UNCHANGED <<facadeVars, tokenVars, clientVars>>

\* fetch f succeeds with tok: the token is stored, the pending entry cleared, and
\* every request held for f goes out carrying the token
FetchSucceeds(f, tok) ==
    /\ f \in csrfFetches
    /\ csrfFetches' = csrfFetches \ {f}
    /\ csrfTokens' = [csrfTokens EXCEPT ![f.origin] = tok]
    /\ csrfPending' = csrfPendingAfter(csrfPending, f.origin, f.id)
    /\ forwarded' =
        {Out(held[i].req, tok, held[i].issued, TRUE, Undefined) :
            i \in {j \in HeldSlots : held[j].fut = f.id}}
    /\ failedOut' = {}
    /\ held' = [i \in Slots |->
                    IF held[i].st = "held" /\ held[i].fut = f.id
                    THEN FreeSlot ELSE held[i]]
    /\ refetch' = refetch \ {f.origin}
    /\ UNCHANGED <<facadeVars, tokenVars, clientVars>>

\* fetch f fails with e: nothing is stored, the pending entry is cleared, and
\* every request held for f is rejected to its caller with e
FetchFails(f, e) ==
    /\ f \in csrfFetches
    /\ csrfFetches' = csrfFetches \ {f}
    /\ csrfPending' = csrfPendingAfter(csrfPending, f.origin, f.id)
    /\ failedOut' =
        {Out(held[i].req, NoCsrf, held[i].issued, TRUE, e) :
            i \in {j \in HeldSlots : held[j].fut = f.id}}
    /\ forwarded' = {}
    /\ held' = [i \in Slots |->
                    IF held[i].st = "held" /\ held[i].fut = f.id
                    THEN FreeSlot ELSE held[i]]
    /\ refetch' = IF csrfTokens[f.origin] = NoCsrf
                  THEN refetch \cup {f.origin} ELSE refetch
    /\ UNCHANGED csrfTokens
    /\ UNCHANGED <<facadeVars, tokenVars, clientVars>>

\* the facade at rest, for the specifications of the caches
FacadeIdle ==
    /\ impl = "async"
    /\ page = "app"
    /\ referrer = <<>>
    /\ pc = "idle"
    /\ route = <<>>
    /\ outcome = NotCalled
    /\ result = NotCalled
    /\ navs = <<>>
    /\ logs = <<>>
    /\ loads = 1
    /\ loginRedirects = 0
    /\ noSession = TRUE

(***************************************************************************)
(* The module of authInterface.js: its `config`, its                       *)
(* `authenticatedAPIClient`, configure, getConfig and                      *)
(* getAuthenticatedApiClient.  A configuration object is the set of keys   *)
(* it defines and the set of methods its loggingService defines; its name  *)
(* tells two objects with the same keys apart.                             *)
(***************************************************************************)
\* the keys configure requires, in the order it checks them
RequiredKeys ==
    <<"appBaseUrl", "authBaseUrl", "loginUrl", "logoutUrl", "loggingService",
      "refreshAccessTokenEndpoint", "accessTokenCookieName", "csrfTokenApiPath">>

\* the methods configure requires of the logging service, in order
LoggingKeys == <<"logInfo", "logError">>

\* the handlers configure does not ask for
OptionalKeys == {"handleRefreshAccessTokenFailure", "handleEmptyAccessToken"}

Range(s) == {s[i] : i \in 1..Len(s)}

Config(name, keys, loggingService) ==
    [name |-> name, keys |-> keys, loggingService |-> loggingService]

\* every configuration object: any keys, and any methods on a logging service
AllConfigs ==
    {Config("c1", k, l) :
        k \in {d \in SUBSET (Range(RequiredKeys) \cup OptionalKeys) :
                    "loggingService" \in d},
        l \in SUBSET Range(LoggingKeys)}
    \cup {Config("c1", k, {}) :
            k \in {d \in SUBSET (Range(RequiredKeys) \cup OptionalKeys) :
                        "loggingService" \notin d}}

\* two complete configurations, and three incomplete ones
ConfigC1 == Config("c1", Range(RequiredKeys) \cup OptionalKeys, Range(LoggingKeys))
ConfigC2 == Config("c2", Range(RequiredKeys), Range(LoggingKeys))
ModuleConfigs ==
    { ConfigC1,
      ConfigC2,
      Config("c3", Range(RequiredKeys) \ {"loginUrl"}, Range(LoggingKeys)),
      Config("c4", Range(RequiredKeys), {"logInfo"}),
      Config("c5", {}, {}) }

\* the messages of the errors configure throws
RequiredMessage(key) ==
    "Invalid configuration supplied to frontend auth. " \o key \o " is required."
LoggingMessage(key) ==
    "Invalid configuration supplied to frontend auth. loggingService." \o key
        \o " must be a function."

\* how a call of one of the module's operations ends
Returned(x) == [kind |-> "returned", value |-> x]
Threw(e) == [kind |-> "threw", value |-> e]

\* forEach over the keys: the first one that is undefined on the object, 0 for none
firstUndefined(keys, defined) ==
    IF \A i \in 1..Len(keys) : keys[i] \in defined
    THEN 0
    ELSE CHOOSE i \in 1..Len(keys) :
            /\ keys[i] \notin defined
            /\ \A j \in 1..(i - 1) : keys[j] \in defined

\* a slip: the logging service is not looked at
configureKeysOnly(incomingConfig) ==
    LET k == firstUndefined(RequiredKeys, incomingConfig.keys)
    IN IF k # 0
       THEN Threw(MkError(RequiredMessage(RequiredKeys[k])))
       ELSE Returned(Undefined)

\* configure(incomingConfig): how the validation ends
configure(incomingConfig) ==
    LET k == firstUndefined(RequiredKeys, incomingConfig.keys)
        l == firstUndefined(LoggingKeys, incomingConfig.loggingService)
    IN IF k # 0
       THEN Threw(MkError(RequiredMessage(RequiredKeys[k])))
       ELSE IF l # 0
            THEN Threw(MkError(LoggingMessage(LoggingKeys[l])))
            ELSE Returned(Undefined)

\* a slip: the new configuration stored before it is validated
configAfterUnchecked(old, incomingConfig) == incomingConfig

\* `config = incomingConfig`, reached only when nothing was thrown
configAfter(old, incomingConfig) ==
    IF configure(incomingConfig).kind = "returned" THEN incomingConfig ELSE old

\* the value a configuration holds under a key
ValueOf(cfg, property) == [t |-> "string", v |-> cfg.name \o "." \o property, a |-> ""]

\* getConfig(property): config[property]
getConfig(property) ==
    IF config = Null
    THEN Threw(TypeErrorOf("'" \o property \o "' of null"))
    ELSE IF property \in config.keys
         THEN Returned(ValueOf(config, property))
         ELSE Returned(Undefined)

(***************************************************************************)
(* The client: an axios instance with its interceptor managers and its     *)
(* default common headers.                                                 *)
(***************************************************************************)
JsTrue == [t |-> "boolean", v |-> "true", a |-> ""]

\* no handler given to use(): undefined
NoHandler == "undefined"
Handler(fulfilled, rejected) == [fulfilled |-> fulfilled, rejected |-> rejected]

\* interceptors.request.use / interceptors.response.use: the handlers are appended
use(handlers, fulfilled, rejected) == Append(handlers, Handler(fulfilled, rejected))

\* axios.create(): the n-th instance, with no interceptor and axios' own defaults
axiosCreate(n) ==
    [id |-> n,
     request |-> <<>>,
     response |-> <<>>,
     common |-> [h \in {"Accept"} |->
                    [t |-> "string", v |-> "application/json, text/plain, */*", a |-> ""]]]

\* the client getAuthenticatedApiClient builds: created, then the CSRF request
\* interceptor, the token request interceptor and the response interceptor
newClient(n) ==
    [axiosCreate(n) EXCEPT
        !.request = use(use(@, "attachCsrfTokenInterceptor", NoHandler),
                        "refreshAccessTokenInterceptor", NoHandler),
        !.response = use(@, "response => response",
                         "processAxiosRequestErrorInterceptor")]

\* a slip: the guard of the singleton left out
clientMissingAlways(client) == TRUE

\* authenticatedAPIClient === null
clientMissing(client) == client = Null

NoCall == [op |-> "none", arg |-> <<>>]

ModuleIdle ==
    /\ config = Null
    /\ authenticatedAPIClient = Null
    /\ created = 0
    /\ handed = {}
    /\ validated = <<>>
    /\ calls = 0
    /\ lastCall = NoCall
    /\ returned = NotCalled

\* the module once getAuthenticatedApiClient(ConfigC1) has returned
ModuleConfigured ==
    /\ config = ConfigC1
    /\ authenticatedAPIClient = newClient(1)
    /\ created = 1
    /\ handed = {1}
    /\ validated = <<ConfigC1>>
    /\ calls = 0
    /\ lastCall = NoCall
    /\ returned = NotCalled

PipelineIdle ==
    /\ chain = <<>>
    /\ carried = NotCalled
    /\ trace = <<>>
    /\ entered = NotCalled

ProbeIdle ==
    /\ probe = Request("get", FALSE, Url(OriginA, "/a"))
    /\ exempt = <<>>

ClientIdle == ModuleIdle /\ PipelineIdle /\ ProbeIdle /\ fault = "none"

\* the application calls configure(incomingConfig)
ConfigureCall(incomingConfig) ==
    /\ calls < MaxCalls
    /\ calls' = calls + 1
    /\ lastCall' = [op |-> "configure", arg |-> incomingConfig]
    /\ validated' = Append(validated, incomingConfig)
    /\ returned' = configure(incomingConfig)
    /\ config' = configAfter(config, incomingConfig)
    /\ UNCHANGED <<authenticatedAPIClient, created, handed>>
    /\ UNCHANGED <<facadeVars, tokenVars, csrfVars, pipelineVars, probe, exempt, fault>>

\* the application calls getAuthenticatedApiClient(authConfig)
GetClientCall(authConfig) ==
    /\ calls < MaxCalls
    /\ calls' = calls + 1
    /\ lastCall' = [op |-> "getAuthenticatedApiClient", arg |-> authConfig]
    /\ IF clientMissing(authenticatedAPIClient)
       THEN /\ validated' = Append(validated, authConfig)
            /\ config' = configAfter(config, authConfig)
            /\ IF configure(authConfig).kind = "threw"
               THEN /\ returned' = configure(authConfig)
                    /\ UNCHANGED <<authenticatedAPIClient, created, handed>>
               ELSE /\ created' = created + 1
                    /\ authenticatedAPIClient' = newClient(created + 1)
                    /\ returned' = Returned(newClient(created + 1))
                    /\ handed' = handed \cup {created + 1}
       ELSE /\ returned' = Returned(authenticatedAPIClient)
            /\ handed' = handed \cup {authenticatedAPIClient.id}
            /\ UNCHANGED <<config, authenticatedAPIClient, created, validated>>
    /\ UNCHANGED <<facadeVars, tokenVars, csrfVars, pipelineVars, probe, exempt, fault>>

\* the application calls getConfig(property)
GetConfigCall(property) ==
    /\ calls < MaxCalls
    /\ calls' = calls + 1
    /\ lastCall' = [op |-> "getConfig", arg |-> property]
    /\ returned' = getConfig(property)
    /\ UNCHANGED <<config, authenticatedAPIClient, created, handed, validated>>
    /\ UNCHANGED <<facadeVars, tokenVars, csrfVars, pipelineVars, probe, exempt, fault>>

(***************************************************************************)
(* One request through the client.  axios builds the promise chain of a    *)
(* request from the registered interceptors; each link is a pair of        *)
(* handlers, and a link without the handler for the way the promise        *)
(* settled lets the settlement through.  Objects carry a reference, so     *)
(* that the same object can be told from an equal one.                     *)
(***************************************************************************)
Obj(ref, x) == [ref |-> ref, t |-> x.t, v |-> x.v, a |-> x.a]

\* the request configurations the application sends
RequestConfigs ==
    {Obj("request1", [t |-> "config", v |-> "post /a", a |-> ""]),
     Obj("request2", [t |-> "config", v |-> "get /b", a |-> ""])}

TheResponse == Obj("response", [t |-> "response", v |-> "It worked!", a |-> ""])

\* the failures of a request: 401, 403, 401 of the refresh endpoint, no answer
Error401 == Obj("error401", MkError("Request failed with status code 401"))
Error403 == Obj("error403", MkError("Request failed with status code 403"))
ErrorRefresh401 == Obj("errorRefresh401", MkError("Request failed with status code 401"))
ErrorNoAnswer == Obj("errorNoAnswer", ErrNetwork)
\* the failures inside the request steps: of the token refresh, of the CSRF fetch
ErrorTokenRefresh == Obj("errorTokenRefresh", ErrNetwork)
ErrorCsrfFetch == Obj("errorCsrfFetch", ErrHttp)

Reverse(s) == [i \in 1..Len(s) |-> s[Len(s) + 1 - i]]

\* a slip: the request interceptors run in the order of their registration
axiosChainInOrder(client) ==
    client.request \o <<Handler("dispatchRequest", NoHandler)>> \o client.response

\* the chain of a request: the request interceptors in the reverse of their
\* registration, the transmission, the response interceptors
axiosChain(client) ==
    Reverse(client.request) \o <<Handler("dispatchRequest", NoHandler)>>
        \o client.response

\* a slip: the error returned instead of thrown
handleUnexpectedAccessTokenRefreshErrorSwallowed(error) ==
    Effect(Resolved(error), <<redirectToLogout(appBaseUrl)>>,
           logFrontendAuthError(error))

\* handleUnexpectedAccessTokenRefreshError(error): log, redirectToLogout(), throw error
handleUnexpectedAccessTokenRefreshError(error) ==
    Effect(Rejected(error), <<redirectToLogout(appBaseUrl)>>,
           logFrontendAuthError(error))

\* what happened inside a step, and what the step did about it
Outcome(cause, effect) == [cause |-> cause, effect |-> effect]
NoCause == "none"

\* the CSRF step on request x: forwarded, with the header or untouched, or
\* rejected with the failure of the fetch
attachCsrfTokenInterceptor(x) ==
    { Outcome(NoCause, Effect(Resolved(x), <<>>, <<>>)),
      Outcome(NoCause, Effect(Resolved([x EXCEPT !.a = "X-CSRFToken"]), <<>>, <<>>)),
      Outcome(ErrorCsrfFetch.ref, Effect(Rejected(ErrorCsrfFetch), <<>>, <<>>)) }

\* the token step on request x: forwarded, or the failure of the refresh handed
\* to handleUnexpectedRefreshError
refreshAccessTokenInterceptor(x) ==
    { Outcome(NoCause, Effect(Resolved(x), <<>>, <<>>)),
      Outcome(ErrorTokenRefresh.ref,
              handleUnexpectedAccessTokenRefreshError(ErrorTokenRefresh)) }

\* the transmission: a response, or one of the failures
dispatchRequest(x) ==
    {Outcome(NoCause, Effect(Resolved(TheResponse), <<>>, <<>>))}
    \cup {Outcome(e.ref, Effect(Rejected(e), <<>>, <<>>)) :
            e \in {Error401, Error403, ErrorRefresh401, ErrorNoAnswer}}

\* response => response
responseFulfilled(response) == Effect(Resolved(response), <<>>, <<>>)

\* processAxiosRequestErrorInterceptor(error): the response data moved into
\* error.customAttributes, the error logged and rejected again
processAxiosRequestErrorInterceptor(error) ==
    LET annotated == [error EXCEPT !.a = "httpErrorStatus"]
    IN Effect(Rejected(annotated), <<>>, logFrontendAuthError(annotated))

\* the fulfilled handler of a link on x: every way it can end
fulfilledOutcomes(name, x) ==
    CASE name = "attachCsrfTokenInterceptor" -> attachCsrfTokenInterceptor(x)
      [] name = "refreshAccessTokenInterceptor" -> refreshAccessTokenInterceptor(x)
      [] name = "dispatchRequest" -> dispatchRequest(x)
      [] name = "response => response" -> {Outcome(NoCause, responseFulfilled(x))}

\* the rejected handler of a link on error e; promise.then(f, undefined) lets e through
rejectedOutcome(name, e) ==
    IF name = NoHandler
    THEN Effect(Rejected(e), <<>>, <<>>)
    ELSE processAxiosRequestErrorInterceptor(e)

\* one passed link of the chain
Passed(step, via, cause, out, ref) ==
    [step |-> step, via |-> via, cause |-> cause, out |-> out, ref |-> ref]

\* the application sends a request through the client
SendRequest(req) ==
    /\ authenticatedAPIClient # Null
    /\ chain = <<>>
    /\ calls < MaxCalls
    /\ calls' = calls + 1
    /\ lastCall' = [op |-> "request", arg |-> req]
    /\ chain' = axiosChain(authenticatedAPIClient)
    /\ carried' = Resolved(req)
    /\ entered' = NotCalled
    /\ trace' = <<>>
    /\ returned' = NotCalled
    /\ UNCHANGED <<config, authenticatedAPIClient, created, handed, validated>>
    /\ UNCHANGED <<facadeVars, tokenVars, csrfVars, probe, exempt, fault>>

\* the promise is fulfilled: the fulfilled handler of the next link runs
StepFulfilled ==
    /\ chain # <<>>
    /\ carried.kind = "resolved"
    /\ \E o \in fulfilledOutcomes(Head(chain).fulfilled, carried.value) :
        /\ carried' = o.effect.result
        /\ navs' = navs \o o.effect.navs
        /\ logs' = logs \o o.effect.logs
        /\ trace' = Append(trace,
                           Passed(Head(chain).fulfilled, "fulfilled", o.cause,
                                  o.effect.result.kind, o.effect.result.value.ref))
    /\ entered' = carried
    /\ chain' = Tail(chain)
    /\ UNCHANGED <<impl, page, referrer, pc, route, outcome, result, loads,
                   loginRedirects, noSession>>
    /\ UNCHANGED <<moduleVars, tokenVars, csrfVars, probe, exempt, fault>>

\* the promise is rejected: the rejected handler of the next link runs, if any
StepRejected ==
    /\ chain # <<>>
    /\ carried.kind = "rejected"
    /\ LET e == rejectedOutcome(Head(chain).rejected, carried.value)
       IN /\ carried' = e.result
          /\ navs' = navs \o e.navs
          /\ logs' = logs \o e.logs
          /\ trace' = Append(trace,
                             Passed(Head(chain).rejected, "rejected", NoCause,
                                    e.result.kind, e.result.value.ref))
    /\ entered' = carried
    /\ chain' = Tail(chain)
    /\ UNCHANGED <<impl, page, referrer, pc, route, outcome, result, loads,
                   loginRedirects, noSession>>
    /\ UNCHANGED <<moduleVars, tokenVars, csrfVars, probe, exempt, fault>>

(***************************************************************************)
(* login, logout, redirectToLogin and redirectToLogout called by the       *)
(* application itself.                                                     *)
(***************************************************************************)
\* the argument left out, or undefined; no string of the model equals it
NoArgument == <<"undefined">>

\* the return URLs the application passes
RedirectArguments ==
    {NoArgument, appBaseUrl, appBaseUrl \o <<"/", "p">>,
     appBaseUrl \o <<"/", "p", "?", "q", "=", "1">>}

\* a slip: no default for the parameter
redirectUrlAsGiven(redirectUrl, fallback) == redirectUrl

\* the default parameter (redirectUrl = appBaseUrl): used for undefined only
redirectUrlOr(redirectUrl, fallback) ==
    IF redirectUrl = NoArgument THEN fallback ELSE redirectUrl

\* what the four operations hand to location.assign
targetOf(op, redirectUrl) ==
    CASE op = "login" -> login(redirectUrlOr(redirectUrl, appBaseUrl))
      [] op = "logout" -> logout(redirectUrlOr(redirectUrl, appBaseUrl))
      [] op = "redirectToLogin" -> redirectToLogin(redirectUrlOr(redirectUrl, appBaseUrl))
      [] op = "redirectToLogout" ->
            redirectToLogout(redirectUrlOr(redirectUrl, appBaseUrl))

\* one call of op(redirectUrl): one location.assign, and nothing else
Navigate(op, redirectUrl) ==
    /\ calls < MaxCalls
    /\ calls' = calls + 1
    /\ lastCall' = [op |-> op, arg |-> redirectUrl]
    /\ navs' = Append(navs, targetOf(op, redirectUrl))
    /\ returned' = Returned(Undefined)
    /\ UNCHANGED <<impl, page, referrer, pc, route, outcome, result, logs, loads,
                   loginRedirects, noSession>>
    /\ UNCHANGED <<config, authenticatedAPIClient, created, handed, validated>>
    /\ UNCHANGED <<tokenVars, csrfVars, pipelineVars, probe, exempt, fault>>

\* client.login(redirectUrl) and client.logout(redirectUrl)
LoginCall(redirectUrl) == Navigate("login", redirectUrl)
LogoutCall(redirectUrl) == Navigate("logout", redirectUrl)

\* redirectToLogin(redirectUrl) and redirectToLogout(redirectUrl) of the module,
\* which read the configuration
RedirectToLoginCall(redirectUrl) ==
    /\ config # Null
    /\ Navigate("redirectToLogin", redirectUrl)
RedirectToLogoutCall(redirectUrl) ==
    /\ config # Null
    /\ Navigate("redirectToLogout", redirectUrl)

(***************************************************************************)
(* ensureAuthenticatedUser when a collaborator throws: the login           *)
(* navigation (httpClient.login) or the logging call (logError).           *)
(***************************************************************************)
Faults == {"none", "login", "logError"}

\* what the login navigation throws, and what logError throws
ErrNavigation == MkError("navigation failed")
ErrLogging == MkError("logging failed")

\* the async function: a throw outside the try block, or inside the catch block,
\* rejects the promise with what was thrown
ensureAuthenticatedUserAsyncUnder(flt, o, ref, rt) ==
    IF o.kind = "rejected"
    THEN IF IsNullish(o.value)
         THEN Effect(Rejected(TypeErrorOf("'message' of undefined")), <<>>, <<>>)
         ELSE IF flt = "logError"
              \* logError throws inside the catch block: no logout
              THEN Effect(Rejected(ErrLogging), <<>>,
                          <<LogCall(LogPrefix \o o.value.v, o.value.a)>>)
              ELSE Effect(Rejected(o.value),
                          <<logout(appBaseUrl)>>,
                          <<LogCall(LogPrefix \o o.value.v, o.value.a)>>)
    ELSE IF o.value = Null
         THEN IF isRedirectFromLoginPage(ref)
              THEN IF flt = "logError"
                   THEN Effect(Rejected(ErrLogging), <<>>,
                               <<LogCall(LogPrefix \o RedirectLoopMessage, "")>>)
                   ELSE Effect(Rejected(redirectLoopError), <<>>,
                               <<LogCall(LogPrefix \o RedirectLoopMessage, "")>>)
              ELSE IF flt = "login"
                   \* httpClient.login throws after the try block
                   THEN Effect(Rejected(ErrNavigation), <<>>, <<>>)
                   ELSE Effect(Resolved(Null), <<login(appBaseUrl \o rt)>>, <<>>)
         ELSE Effect(Resolved(o.value), <<>>, <<>>)

\* the promise chain: what the then handler throws goes to the catch handler,
\* which logs, logs out and rejects; what the catch handler throws settles nothing
ensureAuthenticatedUserChainUnder(flt, o, ref, rt) ==
    IF o.kind = "rejected"
    THEN IF IsNullish(o.value)
         THEN Effect(Hung, <<>>, <<>>)
         ELSE IF flt = "logError"
              THEN Effect(Hung, <<>>, <<LogCall(LogPrefix \o o.value.v, o.value.a)>>)
              ELSE Effect(Rejected(o.value),
                          <<logout(appBaseUrl)>>,
                          <<LogCall(LogPrefix \o o.value.v, o.value.a)>>)
    ELSE IF o.value = Null
         THEN IF isRedirectFromLoginPage(ref)
              THEN IF flt = "logError"
                   \* logError throws in the then handler, and again in the catch handler
                   THEN Effect(Hung, <<>>,
                               <<LogCall(LogPrefix \o RedirectLoopMessage, ""),
                                 LogCall(LogPrefix \o ErrLogging.v, ErrLogging.a)>>)
                   ELSE Effect(Rejected(redirectLoopError), <<>>,
                               <<LogCall(LogPrefix \o RedirectLoopMessage, "")>>)
              ELSE IF flt = "login"
                   \* httpClient.login throws in the then handler: the catch handler
                   \* logs, calls httpClient.logout() and rejects
                   THEN Effect(Rejected(ErrNavigation),
                               <<logout(appBaseUrl)>>,
                               <<LogCall(LogPrefix \o ErrNavigation.v, ErrNavigation.a)>>)
                   ELSE Effect(Resolved(Null), <<login(appBaseUrl \o rt)>>, <<>>)
         ELSE Effect(Resolved(o.value), <<>>, <<>>)

\* the awaited token fetch settles with o and the rest runs, under the fault
SettleUnder(o) ==
    /\ pc = "awaiting"
    /\ LET e == IF impl = "async"
                THEN ensureAuthenticatedUserAsyncUnder(fault, o, referrer, route)
                ELSE ensureAuthenticatedUserChainUnder(fault, o, referrer, route)
       IN /\ result' = e.result
          /\ navs' = navs \o e.navs
          /\ logs' = logs \o e.logs
    /\ pc' = "done"
    /\ outcome' = o
    /\ noSession' = (noSession /\ o = Resolved(Null))
    /\ UNCHANGED <<impl, page, referrer, route, loads, loginRedirects>>
    /\ UNCHANGED <<tokenVars, csrfVars, clientVars>>

(***************************************************************************)
(* isExempt on its own.                                                    *)
(***************************************************************************)
\* no method on the request configuration
NoMethod == "undefined"

\* config.method in lower case, in upper case, in mixed case, and missing
MethodValues ==
    {"get", "head", "options", "post", "put", "patch", "delete",
     "GET", "HEAD", "OPTIONS", "POST", "PUT", "PATCH", "DELETE",
     "Post", "Delete", NoMethod}

\* isExempt is called on the request configuration
ApplyIsExempt ==
    /\ exempt = <<>>
    /\ exempt' = <<isExempt(probe)>>
    /\ UNCHANGED probe
    /\ UNCHANGED <<facadeVars, tokenVars, csrfVars, moduleVars, pipelineVars, fault>>

Init == FacadeInit /\ TokenIdle /\ CsrfIdle /\ ClientIdle

Next ==
    \/ \E rt \in Routes : Call(rt)
    \/ \E o \in OutcomesOf(impl) : Settle(o)
    \/ FollowRedirect
    \/ LoginReturns
    \/ LogoutReturns

Spec == Init /\ [][Next]_vars

\* the token cache under concurrent callers
InitToken == FacadeIdle /\ TokenInit /\ CsrfIdle /\ ClientIdle

NextToken ==
    \/ \E c \in Callers : Get(c)
    \/ \E f \in refreshes : \E r \in RefreshOutcomes(now) : RefreshSettles(f, r)
    \/ Tick

SpecToken == InitToken /\ [][NextToken]_vars

\* the CSRF step under concurrent requests
InitCsrf == FacadeIdle /\ TokenIdle /\ CsrfInit /\ ClientIdle

NextCsrf ==
    \/ \E m \in Methods, x \in BOOLEAN, u \in Urls : CsrfStep(m, x, u)
    \/ \E f \in csrfFetches : \E tok \in CsrfTokenValues : FetchSucceeds(f, tok)
    \/ \E f \in csrfFetches : \E e \in {ErrNetwork, ErrHttp} : FetchFails(f, e)

SpecCsrf == InitCsrf /\ [][NextCsrf]_vars

\* the module under calls of its operations
InitModule == FacadeIdle /\ TokenIdle /\ CsrfIdle /\ ClientIdle

NextModule ==
    \/ \E c \in ModuleConfigs : GetClientCall(c)
    \/ \E c \in ModuleConfigs : ConfigureCall(c)
    \/ \E p \in {"appBaseUrl", "loginUrl", "handleEmptyAccessToken"} : GetConfigCall(p)

SpecModule == InitModule /\ [][NextModule]_vars

\* the first call of the module, on any configuration object
NextConfigure ==
    \/ \E c \in AllConfigs : calls = 0 /\ ConfigureCall(c)
    \/ \E c \in AllConfigs : calls = 0 /\ GetClientCall(c)

SpecConfigure == InitModule /\ [][NextConfigure]_vars

\* requests through the client
NextPipeline ==
    \/ \E c \in {ConfigC1} : GetClientCall(c)
    \/ \E r \in RequestConfigs : SendRequest(r)
    \/ StepFulfilled
    \/ StepRejected

SpecPipeline == InitModule /\ [][NextPipeline]_vars

\* the redirects called by the application, on a configured module
InitRedirect ==
    /\ FacadeIdle /\ TokenInit /\ CsrfInit
    /\ ModuleConfigured /\ PipelineIdle /\ ProbeIdle /\ fault = "none"

NextRedirect ==
    \/ \E u \in RedirectArguments : LoginCall(u)
    \/ \E u \in RedirectArguments : LogoutCall(u)
    \/ \E u \in RedirectArguments : RedirectToLoginCall(u)
    \/ \E u \in RedirectArguments : RedirectToLogoutCall(u)

SpecRedirect == InitRedirect /\ [][NextRedirect]_vars

\* one call of the client's ensureAuthenticatedUser under a fault
InitFault ==
    /\ FacadeInit /\ impl \in {"async", "chain"}
    /\ TokenIdle /\ CsrfIdle
    /\ ModuleIdle /\ PipelineIdle /\ ProbeIdle
    /\ fault \in Faults

NextFault ==
    \/ \E rt \in Routes : Call(rt)
    \/ \E o \in GetOutcomes : SettleUnder(o)

SpecFault == InitFault /\ [][NextFault]_vars

\* isExempt on every request configuration
InitExempt ==
    /\ FacadeIdle /\ TokenIdle /\ CsrfIdle
    /\ ModuleIdle /\ PipelineIdle /\ fault = "none"
    /\ probe \in {Request(m, x, u) : m \in MethodValues, x \in BOOLEAN, u \in Urls}
    /\ exempt = <<>>

NextExempt == ApplyIsExempt

SpecExempt == InitExempt /\ [][NextExempt]_vars

(***************************************************************************)
(* The session facade: claims.                                             *)
(***************************************************************************)
\* the call of this page load has run to its end
CallDone == pc = "done"
\* the two versions of httpClient.ensureAuthenticatedUser
ClientImpl == impl \in {"async", "chain"}
ReferrerFromLogin == referrer # <<>> /\ startsWith(referrer, loginUrl)

\* "h://a/li?next=h%3A%2F%2Fe": {loginUrl}?next={urlencode(appBaseUrl)} written out
LoginTargetForEmptyRoute ==
    <<"h", ":", "/", "/", "a", "/", "l", "i", "?", "n", "e", "x", "t", "=",
      "h", "%", "3", "A", "%", "2", "F", "%", "2", "F", "e">>

\* C1: when the token fetch resolved to null and the referrer is non-empty and
\* starts with loginUrl, the call rejects with the redirect-loop Error and
\* issues no navigation at all, for every route.
C1_RedirectLoopGuard ==
    (CallDone /\ outcome = Resolved(Null) /\ ReferrerFromLogin)
        => /\ result.kind = "rejected"
           /\ result.value.t = "Error"
           /\ result.value.v
                = "Redirect from login page. Rejecting to avoid infinite redirect loop."
           /\ navs = <<>>

C1_Witness ==
    /\ CallDone /\ outcome = Resolved(Null)
    /\ referrer = loginUrl \o <<"?", "n">>
    /\ route # <<>>
    /\ result.kind = "rejected"

\* C2: when the token fetch resolved to null and the referrer is empty or does
\* not start with loginUrl, the call issues exactly one navigation, to
\* {loginUrl}?next={urlencode(appBaseUrl + route)}, none to the logout page, and
\* resolves with null.
C2_NoSessionRedirect ==
    (CallDone /\ outcome = Resolved(Null) /\ ~ReferrerFromLogin)
        => /\ navs = <<loginUrl \o NextParam \o encodeURIComponent(appBaseUrl \o route)>>
           /\ (route = <<>> => navs = <<LoginTargetForEmptyRoute>>)
           /\ \A i \in 1..Len(navs) : ~startsWith(navs[i], logoutUrl)
           /\ result = Resolved(Null)

C2_Witness ==
    /\ CallDone /\ outcome = Resolved(Null)
    /\ referrer = SubSeq(loginUrl, 1, Len(loginUrl) - 1)
    /\ route = <<"/", "p", "?", "q", "=", "1">>
    /\ Len(navs) = 1
    /\ result = Resolved(Null)

\* C3: when the token fetch resolved to a non-null value v, the client's
\* ensureAuthenticatedUser resolves to exactly v and issues no navigation,
\* whatever the referrer.
C3_AuthenticatedPath ==
    (CallDone /\ ClientImpl /\ outcome.kind = "resolved" /\ outcome.value # Null)
        => /\ result = Resolved(outcome.value)
           /\ navs = <<>>

C3_Witness ==
    /\ CallDone /\ impl = "async"
    /\ outcome = Resolved(TokenA)
    /\ ReferrerFromLogin
    /\ result = Resolved(TokenA)

\* C4: when the token fetch rejected with e, the client's ensureAuthenticatedUser
\* logs once, issues the logout navigation to
\* {logoutUrl}?redirect_url={urlencode(appBaseUrl)} and no other, and rejects with e.
C4_UnexpectedRefreshError ==
    (CallDone /\ ClientImpl /\ outcome.kind = "rejected")
        => /\ Len(logs) = 1
           /\ navs = <<logoutUrl \o RedirectUrlParam \o encodeURIComponent(appBaseUrl)>>
           /\ result = Rejected(outcome.value)

\* C5: in a run whose every token fetch resolved to null, the browser is sent to
\* the login page at most once; the page load that follows that redirect ends
\* rejected with the redirect-loop error and with no navigation to follow.
C5_NoBounce ==
    noSession
        => /\ loginRedirects <= 1
           /\ (loginRedirects = 1 /\ page = "app" /\ CallDone)
                => /\ result = Rejected(redirectLoopError)
                   /\ navs = <<>>
                   /\ ~ENABLED FollowRedirect

C5_Witness ==
    /\ noSession
    /\ loginRedirects = 1
    /\ page = "app"
    /\ CallDone
    /\ loads = 2
    /\ result.kind = "rejected"

(***************************************************************************)
(* The token cache: claims.                                                *)
(***************************************************************************)
\* C6: the calls to get() of one burst, begun with no valid cached token and no
\* refresh pending and overlapping at their awaits, issue exactly one refresh
\* network call, and all of them settle with the same outcome.
C6_TokenSingleFlight ==
    /\ Cardinality(refreshes) <= 1
    /\ burstCalls <= 1
    /\ SomeoneWaiting => (burstCalls = 1 /\ Cardinality(refreshes) = 1)
    /\ \A c1, c2 \in member :
        (callers[c1].st = "settled" /\ callers[c2].st = "settled")
            => callers[c1].res = callers[c2].res

C6_Witness ==
    /\ Cardinality(member) >= 2
    /\ \A c \in member : callers[c].st = "settled" /\ callers[c].res.kind = "rejected"
    /\ burstCalls = 1
    /\ refreshes = {}

(***************************************************************************)
(* The CSRF step: claims.                                                  *)
(***************************************************************************)
\* the method whatever its case
Lower(method) ==
    CASE method = "GET" -> "get"
      [] method \in {"POST", "Post"} -> "post"
      [] method = "HEAD" -> "head"
      [] method = "OPTIONS" -> "options"
      [] method = "PUT" -> "put"
      [] method = "PATCH" -> "patch"
      [] method \in {"DELETE", "Delete"} -> "delete"
      [] OTHER -> method

InFlight(o) == {f \in csrfFetches : f.origin = o}
HeldFor(o) == {i \in HeldSlots : originOf(held[i].req.url) = o}
Issuers(o) == {i \in HeldFor(o) : held[i].issued}
\* a request the claims call protected, and one they call exempt
ProtectedByClaim(req) ==
    Lower(req.method) \in {"post", "put", "patch", "delete"} /\ ~req.isCsrfExempt
ExemptByClaim(req) ==
    Lower(req.method) \in {"get", "head", "options"} \/ req.isCsrfExempt

C8_CsrfHeaderOnProtected ==
    \A r \in forwarded :
        ProtectedByClaim(r.req)
            => /\ r.header # NoCsrf
               /\ r.header = csrfTokens[originOf(r.req.url)]
               /\ (~r.waited => ~r.issued)

\* C9: a request whose method is GET, HEAD or OPTIONS, or that is marked exempt,
\* is never held and never rejected, is forwarded without X-CSRFToken, issues no
\* fetch, and its step changes neither the token store nor the pending fetches.
C9_ExemptUntouched ==
    /\ [](\A r \in forwarded \cup failedOut :
            ExemptByClaim(r.req)
                => r \in forwarded /\ r.header = NoCsrf /\ ~r.issued /\ ~r.waited)
    /\ [](\A i \in HeldSlots : ~ExemptByClaim(held[i].req))
    /\ [][(\E r \in forwarded' : ExemptByClaim(r.req))
            => UNCHANGED <<csrfTokens, csrfPending, csrfFetches, held>>]_vars

C9_Witness ==
    /\ \E r \in forwarded : r.req.method = "post" /\ r.req.isCsrfExempt /\ r.header = NoCsrf
    /\ csrfFetches # {}
    /\ csrfTokens[OriginB] # NoCsrf

C11_IsExemptTruthTable ==
    exempt # <<>>
        => (exempt[1] <=> (\/ probe.isCsrfExempt
                           \/ Lower(probe.method) \notin {"post", "put", "patch", "delete"}))

(***************************************************************************)
(* The request pipeline: claims.                                           *)
(***************************************************************************)
\* the request of this chain has been handed to the transport
Transmitted == \E i \in 1..Len(trace) : trace[i].step = "dispatchRequest"

\* C12 as stated: a request is transmitted only after the CSRF step and then
\* the token step, in this order, have both completed.
C12_CsrfThenToken ==
    \A i \in 1..Len(trace) :
        trace[i].step = "dispatchRequest"
            => /\ i = 3
               /\ trace[1].step = "attachCsrfTokenInterceptor"
               /\ trace[2].step = "refreshAccessTokenInterceptor"

\* C12: given that request interceptors run in the reverse of their
\* registration, a request is transmitted only after the token step and then the
\* CSRF step, in this order, have both completed without rejecting.
C12_TokenThenCsrf ==
    \A i \in 1..Len(trace) :
        trace[i].step = "dispatchRequest"
            => /\ i = 3
               /\ trace[1].step = "refreshAccessTokenInterceptor"
               /\ trace[2].step = "attachCsrfTokenInterceptor"
               /\ \A j \in 1..2 : trace[j].via = "fulfilled" /\ trace[j].out = "resolved"

C12_Witness ==
    /\ Transmitted
    /\ chain = <<>>
    /\ carried = Resolved(TheResponse)

RequestHandlers(name) ==
    {i \in 1..Len(authenticatedAPIClient.request) :
        authenticatedAPIClient.request[i].fulfilled = name}

\* C14: every call of getAuthenticatedApiClient that returns, returns the one
\* client; the client is created once, and carries one CSRF request interceptor,
\* one token request interceptor and one response interceptor, whatever the
\* configurations of the later calls.
C14_Singleton ==
    /\ created <= 1
    /\ Cardinality(handed) <= 1
    /\ authenticatedAPIClient = Null => (created = 0 /\ handed = {})
    /\ authenticatedAPIClient # Null
        => /\ created = 1
           /\ handed \subseteq {authenticatedAPIClient.id}
           /\ Len(authenticatedAPIClient.request) = 2
           /\ Cardinality(RequestHandlers("attachCsrfTokenInterceptor")) = 1
           /\ Cardinality(RequestHandlers("refreshAccessTokenInterceptor")) = 1
           /\ Len(authenticatedAPIClient.response) = 1
    /\ (lastCall.op = "getAuthenticatedApiClient" /\ returned.kind = "returned")
        => returned.value = authenticatedAPIClient

C14_Witness ==
    /\ calls = 3
    /\ lastCall.op = "getAuthenticatedApiClient"
    /\ lastCall.arg = ConfigC2
    /\ returned.kind = "returned"
    /\ config = ConfigC1
    /\ handed = {1}

\* C15 as stated: once the client exists, no operation of the module changes
\* the configuration or validates another one.
C15_FirstConfigWins ==
    [][authenticatedAPIClient # Null
        => (config' = config /\ validated' = validated)]_vars

\* C15: once the client exists, a call of getAuthenticatedApiClient or of
\* getConfig neither validates nor stores a configuration; a call of the
\* exported configure validates its argument and, when it is complete, makes it
\* the configuration in effect.
C15_FirstConfigWinsAmongClients ==
    [][authenticatedAPIClient # Null
        => /\ lastCall'.op # "configure"
                => (config' = config /\ validated' = validated)
           /\ (calls' = calls + 1 /\ lastCall'.op = "configure")
                => /\ validated' = Append(validated, lastCall'.arg)
                   /\ returned'.kind = "returned" => config' = lastCall'.arg
                   /\ returned'.kind = "threw" => config' = config]_vars

C15_Witness ==
    /\ created = 1
    /\ lastCall.op = "getAuthenticatedApiClient"
    /\ lastCall.arg.name = "c3"
    /\ returned.kind = "returned"
    /\ config = ConfigC1
    /\ validated = <<ConfigC1>>

\* the keys and the logging methods the claim lists
ClaimedKeys ==
    {"appBaseUrl", "authBaseUrl", "loginUrl", "logoutUrl", "loggingService",
     "refreshAccessTokenEndpoint", "accessTokenCookieName", "csrfTokenApiPath"}
ClaimedLogging == {"logInfo", "logError"}

\* C16: the first configure or getAuthenticatedApiClient call throws an Error
\* 'Invalid configuration supplied to frontend auth. ...' naming a missing key or
\* a missing logging method when any of the eight keys or of logInfo, logError is
\* missing, and stores nothing; it accepts the configuration exactly when all of
\* them are present, with or without the optional handlers.
C16_EagerValidation ==
    (calls = 1 /\ lastCall.op \in {"configure", "getAuthenticatedApiClient"})
        => LET c == lastCall.arg
               complete ==
                    /\ ClaimedKeys \subseteq c.keys
                    /\ ClaimedLogging \subseteq c.loggingService
           IN /\ complete <=> returned.kind = "returned"
              /\ complete => config = c
              /\ ~complete
                    => /\ returned.kind = "threw"
                       /\ returned.value.t = "Error"
                       /\ returned.value.v \in
                            {"Invalid configuration supplied to frontend auth. "
                                \o k \o " is required." : k \in ClaimedKeys \ c.keys}
                            \cup
                            {"Invalid configuration supplied to frontend auth. "
                                \o "loggingService." \o k \o " must be a function." :
                                    k \in ClaimedLogging \ c.loggingService}
                       /\ config = Null
                       /\ authenticatedAPIClient = Null

C16_Witness ==
    /\ calls = 1
    /\ lastCall.op = "getAuthenticatedApiClient"
    /\ lastCall.arg.keys = ClaimedKeys
    /\ returned.kind = "returned"
    /\ authenticatedAPIClient # Null
    /\ config.keys = ClaimedKeys

\* C17: once the client exists, its default common headers hold USE-JWT-COOKIE
\* with the value true.
C17_UseJwtCookieHeader ==
    authenticatedAPIClient # Null
        => /\ "USE-JWT-COOKIE" \in DOMAIN authenticatedAPIClient.common
           /\ authenticatedAPIClient.common["USE-JWT-COOKIE"] = JsTrue

(***************************************************************************)
(* login and logout: claims.                                               *)
(***************************************************************************)
\* "h://a/lo?redirect_url=h%3A%2F%2Fe": {logoutUrl}?redirect_url={urlencode(appBaseUrl)}
LogoutTargetForNoArgument ==
    <<"h", ":", "/", "/", "a", "/", "l", "o", "?", "r", "e", "d", "i", "r", "e", "c",
      "t", "_", "u", "r", "l", "=", "h", "%", "3", "A", "%", "2", "F", "%", "2", "F",
      "e">>

\* C18: a call of login(redirectUrl) issues exactly one navigation, to
\* {loginUrl}?next={urlencode(redirectUrl)}; with redirectUrl left out or undefined
\* the target is that of login(appBaseUrl); the target is never on the logout
\* page, and the token cache and the CSRF store are left as they were.
C18_LoginNavigatesOnce ==
    [][(calls' = calls + 1 /\ lastCall'.op \in {"login", "redirectToLogin"})
        => /\ navs' = Append(navs,
                        loginUrl \o NextParam \o
                            encodeURIComponent(IF lastCall'.arg = NoArgument
                                               THEN appBaseUrl ELSE lastCall'.arg))
           /\ lastCall'.arg \in {NoArgument, appBaseUrl}
                => navs'[Len(navs')] = LoginTargetForEmptyRoute
           /\ ~startsWith(navs'[Len(navs')], logoutUrl)
           /\ UNCHANGED <<tokenVars, csrfVars>>]_vars

C18_Witness ==
    /\ lastCall.op = "login"
    /\ lastCall.arg = NoArgument
    /\ calls = 2
    /\ Len(navs) = 2
    /\ navs[2] = LoginTargetForEmptyRoute
    /\ cachedToken # NoToken

\* C19: a call of logout(redirectUrl) issues exactly one navigation, to
\* {logoutUrl}?redirect_url={urlencode(redirectUrl)}; with redirectUrl left out or
\* undefined the target is that of logout(appBaseUrl).
C19_LogoutNavigatesOnce ==
    [][(calls' = calls + 1 /\ lastCall'.op \in {"logout", "redirectToLogout"})
        => /\ navs' = Append(navs,
                        logoutUrl \o RedirectUrlParam \o
                            encodeURIComponent(IF lastCall'.arg = NoArgument
                                               THEN appBaseUrl ELSE lastCall'.arg))
           /\ lastCall'.arg \in {NoArgument, appBaseUrl}
                => navs'[Len(navs')] = LogoutTargetForNoArgument]_vars

C19_Witness ==
    /\ lastCall.op = "logout"
    /\ lastCall.arg = NoArgument
    /\ calls = 1
    /\ navs = <<LogoutTargetForNoArgument>>

(***************************************************************************)
(* ensureAuthenticatedUser under faults: claims.                           *)
(***************************************************************************)
LogoutIssued == \E i \in 1..Len(navs) : startsWith(navs[i], logoutUrl)
LoginIssued == \E i \in 1..Len(navs) : startsWith(navs[i], loginUrl)

\* C20: in both versions of the client's ensureAuthenticatedUser a logout
\* navigation is issued only if the token fetch rejected, also when the login
\* navigation or the logging call throws, and no call issues both a login and a
\* logout navigation.
C20_NullAndRejectionApart ==
    CallDone
        => /\ LogoutIssued => outcome.kind = "rejected"
           /\ ~(LoginIssued /\ LogoutIssued)

\* C21: the async version and the promise-chain version of the client's
\* ensureAuthenticatedUser settle the same way and issue the same log calls and
\* navigations, for every outcome of the token fetch, every referrer and every
\* route, whether or not the login navigation or the logging call throws.
C21_VersionsEquivalent ==
    CallDone
        => LET viaAsync ==
                    ensureAuthenticatedUserAsyncUnder(fault, outcome, referrer, route)
               viaChain ==
                    ensureAuthenticatedUserChainUnder(fault, outcome, referrer, route)
           IN /\ viaAsync = viaChain
              /\ result = viaAsync.result
              /\ navs = viaAsync.navs
              /\ logs = viaAsync.logs

(***************************************************************************)
(* Rejected configurations: claims.                                        *)
(***************************************************************************)
\* C22: a call of configure or getAuthenticatedApiClient that throws on its
\* configuration leaves the stored configuration and the client as they were,
\* creates no client and registers no interceptor; while no client exists, a
\* call of getAuthenticatedApiClient with a complete configuration returns the
\* client and makes that configuration the one in effect.
C22_RejectedConfigLeavesNoTrace ==
    [][(calls' = calls + 1
            /\ lastCall'.op \in {"configure", "getAuthenticatedApiClient"})
        => /\ returned'.kind = "threw"
                => UNCHANGED <<config, authenticatedAPIClient, created, handed>>
           /\ (/\ lastCall'.op = "getAuthenticatedApiClient"
               /\ authenticatedAPIClient = Null
               /\ ClaimedKeys \subseteq lastCall'.arg.keys
               /\ ClaimedLogging \subseteq lastCall'.arg.loggingService)
                => /\ returned'.kind = "returned"
                   /\ authenticatedAPIClient' # Null
                   /\ returned'.value = authenticatedAPIClient'
                   /\ config' = lastCall'.arg]_vars

C22_Witness ==
    /\ calls = 3
    /\ Len(validated) = 3
    /\ validated[1].name = "c3"
    /\ validated[2].name = "c4"
    /\ validated[3] = ConfigC2
    /\ lastCall.op = "getAuthenticatedApiClient"
    /\ returned.kind = "returned"
    /\ config = ConfigC2
    /\ created = 1

====
